---- MODULE Spec2Model ----
(***************************************************************************)
(* Eunomia ingestion pipeline (src/src/ingest.py, src/src/constants.py).   *)
(*                                                                         *)
(* A path is a sequence of one-character strings, so that substring tests, *)
(* rsplit and glob matching are computed on characters as the code does.   *)
(***************************************************************************)
EXTENDS Integers, Sequences, FiniteSets, TLC

VARIABLES
    fs,         \* files present under cwd (set of paths)
    edits,      \* paths whose content was edited in place after Init
    dir,        \* the persist directory: marker, parquet files, shard files
    store,      \* chunks held by the vector index at self.db
    runs,       \* number of ingest() invocations started so far
    proc,       \* per ingest() invocation: its control state and locals
    hist,       \* bookkeeping of completed runs (chunk counts, fs changes)
    ignore_folders, \* self.ignore_folders (IGNORE_FOLDERS of the configuration)
    probe,      \* result of a direct call of a pure method
    chat        \* the query loop of Eunomia.start

vars == <<fs, edits, dir, store, runs, proc, hist, ignore_folders, probe, chat>>

\* ----------------------------------------------------------------- bounds
MaxRuns == 3     \* ingest() invocations per behaviour
MaxEnv == 1      \* changes made from outside the program per behaviour: a file
                 \* edited in place, a file created, a shard file removed
MaxBin == 3      \* *.bin files drawn for the existence check
MaxPkl == 3      \* *.pkl files drawn for the existence check
MaxPathLen == 3  \* length of the generated paths given to load_single_document
MaxLines == 3    \* lines read by the query loop per behaviour

\* ------------------------------------------------------- sequence helpers
Last(s) == s[Len(s)]

Range(s) == {s[i] : i \in 1..Len(s)}

\* `t in s` for Python strings: t occurs as a contiguous substring of s
Contains(s, t) ==
    \E i \in 0..(Len(s) - Len(t)) : SubSeq(s, i + 1, i + Len(t)) = t

\* s.endswith(t)
EndsWith(s, t) ==
    /\ Len(t) <= Len(s)
    /\ SubSeq(s, Len(s) - Len(t) + 1, Len(s)) = t

\* index of the last occurrence of character c in s, 0 when there is none
LastIndexOf(s, c) ==
    IF \E i \in 1..Len(s) : s[i] = c
    THEN CHOOSE i \in 1..Len(s) : s[i] = c /\ \A j \in (i + 1)..Len(s) : s[j] # c
    ELSE 0

\* s.rsplit(c, 1)[-1] and s.split(c)[-1]: the text after the last c, the
\* whole of s when c does not occur
AfterLast(s, c) == SubSeq(s, LastIndexOf(s, c) + 1, Len(s))

\* the sequences over set S that list every element of S exactly once
Orderings(S) ==
    {s \in [1..Cardinality(S) -> S] : \A i, j \in 1..Cardinality(S) : s[i] = s[j] => i = j}

\* ------------------------------------------------------------- constants.py
\* LOADER_MAPPING keys, in the dict's insertion order
LOADER_KEYS ==
    << <<".", "p", "y">>,
       <<".", "h", "t", "m", "l">>,
       <<".", "m", "d">>,
       <<".", "c", "p", "p">>,
       <<".", "h", "p", "p">>,
       <<".", "j", "s">>,
       <<".", "r", "b">>,
       <<".", "r", "s">>,
       <<".", "j", "a", "v", "a">>,
       <<".", "j", "a", "r">>,
       <<".", "g", "o">>,
       <<".", "s", "c", "a", "l", "a">>,
       <<".", "s", "c">>,
       <<".", "s", "w", "i", "f", "t">> >>

InLoaderMapping(ext) == ext \in Range(LOADER_KEYS)

\* LOADER_MAPPING[ext][0]
LOADER_MAPPING(ext) ==
    CASE ext = <<".", "p", "y">> -> "PythonLoader"
      [] ext = <<".", "h", "t", "m", "l">> -> "UnstructuredHTMLLoader"
      [] ext = <<".", "m", "d">> -> "UnstructuredMarkdownLoader"
      [] OTHER -> "TextLoader"

\* variant: the registry of language tags without the entry for md
LANG_KEYS_WithoutMd ==
    { <<"p", "y">>, <<"c", "p", "p">>, <<"h", "p", "p">>, <<"j", "s">>,
      <<"h", "t", "m", "l">>, <<"r", "b">>, <<"r", "s">>,
      <<"j", "a", "v", "a">>, <<"j", "a", "r">>, <<"g", "o">>,
      <<"s", "c", "a", "l", "a">>, <<"s", "c">>, <<"s", "w", "i", "f", "t">> }

\* LANG_MAPPINGS keys (no leading dot)
LANG_KEYS ==
    { <<"p", "y">>, <<"c", "p", "p">>, <<"h", "p", "p">>, <<"j", "s">>,
      <<"h", "t", "m", "l">>, <<"m", "d">>, <<"r", "b">>, <<"r", "s">>,
      <<"j", "a", "v", "a">>, <<"j", "a", "r">>, <<"g", "o">>,
      <<"s", "c", "a", "l", "a">>, <<"s", "c">>, <<"s", "w", "i", "f", "t">> }

InLangMappings(ext) == ext \in LANG_KEYS

\* self.threshold
threshold == 5242880

\* ------------------------------------------------------------ the file tree
\* Paths relative to cwd. The folder "vn" is the one IGNORE_FOLDERS may name.
aPy == <<"a", ".", "p", "y">>
vnPy == <<"v", "n", "/", "b", ".", "p", "y">>
cMd == <<"c", ".", "m", "d">>
eJs == <<"e", ".", "j", "s">>
fGo == <<"f", ".", "g", "o">>
gRb == <<"g", ".", "r", "b">>
hTxt == <<"h", ".", "t", "x", "t">>
hiddenPy == <<".", "i", ".", "p", "y">>

\* files that may or may not be present under cwd
OptionalFiles == {aPy, vnPy, cMd, eJs, fGo, gRb}

\* files always present: an unregistered extension and a hidden file
FixedFiles == {hTxt, hiddenPy}

Universe == OptionalFiles \cup FixedFiles

\* the files the environment edits in place
EditableFiles == {aPy, cMd}

\* the values IGNORE_FOLDERS takes
IgnoreConfigs == { <<>>, << <<"v", "n">> >> }

\* os.path.getsize(file_path): below, at and above the threshold
FileSize(p) ==
    CASE p = aPy -> threshold
      [] p = vnPy -> threshold + 1
      [] p = gRb -> threshold + 1
      [] OTHER -> threshold - 1

\* loader.load() raises on this file (corrupt content)
LoadFails(p) == p = eJs

\* text_splitter.split_documents raises on this file's document
SplitFails(p) == p = fGo

\* number of chunks split_documents yields for the file (an empty file: none)
NChunks(p) ==
    CASE p = aPy -> 2
      [] p = gRb -> 0
      [] OTHER -> 1

\* ----------------------------------------------------- does_vectorstore_exist
NoDir == [marker |-> FALSE, coll |-> FALSE, emb |-> FALSE, nbin |-> 0, npkl |-> 0]

\* what Chroma's persist leaves in the directory: the index marker, both
\* parquet files and the four files of the index (1 *.bin, 3 *.pkl)
PersistedDir == [marker |-> TRUE, coll |-> TRUE, emb |-> TRUE, nbin |-> 1, npkl |-> 3]

\* variant: the shard count compared with > 4
DoesVectorstoreExistStrict(d) ==
    IF d.marker
    THEN IF d.coll /\ d.emb
         THEN IF d.nbin + d.npkl > 4 THEN TRUE ELSE FALSE
         ELSE FALSE
    ELSE FALSE

\* Ingestor.does_vectorstore_exist; d.nbin and d.npkl are the lengths of the
\* two glob results inside the index directory
DoesVectorstoreExist(d) ==
    IF d.marker
    THEN IF d.coll /\ d.emb
         THEN IF d.nbin + d.npkl > 3 THEN TRUE ELSE FALSE
         ELSE FALSE
    ELSE FALSE

\* ------------------------------------------------------- load_single_document
\* ext = "." + file_path.rsplit(".", 1)[-1]
LoaderExt(file_path) == <<".">> \o AfterLast(file_path, ".")

\* Ingestor.load_single_document: the loader selected and what is raised.
\* loader.load() itself raises on a file that LoadFails.
LoadSingleDocument(file_path) ==
    LET ext == LoaderExt(file_path) IN
    IF InLoaderMapping(ext)
    THEN [ext |-> ext,
          loader |-> LOADER_MAPPING(ext),
          raised |-> IF LoadFails(file_path) THEN "LoaderError" ELSE "none"]
    ELSE [ext |-> ext, loader |-> "none", raised |-> "ValueError"]

\* ---------------------------------------------------------------- discovery
Basename(p) == AfterLast(p, "/")

\* a path component starting with "." (glob's * and ** skip hidden names)
HasHiddenComponent(p) ==
    \E i \in 1..Len(p) : p[i] = "." /\ (i = 1 \/ p[i - 1] = "/")

\* whether glob.glob(os.path.join(cwd, "**/*" + ext), recursive=True) returns p
GlobMatches(p, ext) == EndsWith(Basename(p), ext) /\ ~HasHiddenComponent(p)

\* the values all_files can take (lines 64-68): one glob result per key of
\* LOADER_MAPPING, from key k on, concatenated in the dict's order; within one
\* result the order is that of the directory listing, which the code does not fix
RECURSIVE AllFilesFrom(_, _)
AllFilesFrom(k, files) ==
    IF k > Len(LOADER_KEYS) THEN {<<>>}
    ELSE {a \o b : a \in Orderings({p \in files : GlobMatches(p, LOADER_KEYS[k])}),
                   b \in AllFilesFrom(k + 1, files)}

\* variant: the glob results joined in no particular order of the keys
AllFilesOfUnordered(files) ==
    Orderings({p \in files : \E k \in 1..Len(LOADER_KEYS) : GlobMatches(p, LOADER_KEYS[k])})

\* variant: only the first key's pattern is globbed
AllFilesOfFirstKey(files) == Orderings({p \in files : GlobMatches(p, LOADER_KEYS[1])})

AllFilesOf(files) == AllFilesFrom(1, files)

\* any(ignore_folder in file_path for ignore_folder in self.ignore_folders)
InIgnoredFolder(file_path, folders) ==
    \E k \in 1..Len(folders) : Contains(file_path, folders[k])

\* the list comprehension [x for x in xs if keep(x)], order kept
RECURSIVE SelectPaths(_, _)
SelectPaths(xs, keep) ==
    IF xs = <<>> THEN <<>>
    ELSE (IF Head(xs) \in keep THEN <<Head(xs)>> ELSE <<>>) \o SelectPaths(Tail(xs), keep)

\* variant: the already-indexed paths are not removed
FilteredFilesKeepIndexed(all_files, folders, ignored_files) ==
    SelectPaths(all_files, {p \in Range(all_files) : ~InIgnoredFolder(p, folders)})

\* filtered_files of load_documents (lines 69-81). With a non-empty
\* ignored_files the second assignment rebuilds the list from all_files, so the
\* ignore-folder filter of the first loop is dropped.
FilteredFiles(all_files, folders, ignored_files) ==
    LET byFolder == SelectPaths(all_files,
                        {p \in Range(all_files) : ~InIgnoredFolder(p, folders)})
    IN  IF ignored_files # {}
        THEN SelectPaths(all_files, {p \in Range(all_files) : p \notin ignored_files})
        ELSE byFolder

\* variant: the comparison made non-strict
UsesProcessPoolAtThreshold(file_size) == file_size >= threshold

\* file_size > self.threshold (line 90)
UsesProcessPool(file_size) == file_size > threshold

\* ------------------------------------------------------------ documents, chunks
\* loader.load()[0]: the document of a file; edited records whether the content
\* read is that of an in-place edit
Document(p) == [source |-> p, edited |-> p \in edits]

\* variant: the chunks of one document in reverse order
ChunksOfReversed(doc, run) ==
    [k \in 1..NChunks(doc.source) |->
        [source |-> doc.source, k |-> NChunks(doc.source) + 1 - k,
         edited |-> doc.edited, run |-> run]]

\* split_docs([doc]): the chunks of one document, in split order. The run
\* number tells the chunks of two commits of one source apart (the index is
\* a multiset of chunks).
ChunksOf(doc, run) ==
    [k \in 1..NChunks(doc.source) |->
        [source |-> doc.source, k |-> k, edited |-> doc.edited, run |-> run]]

\* [metadata["source"] for metadata in collection["metadatas"]]
StoredSources(s) == {c.source : c \in s}

\* doc.metadata["source"].split(".")[-1]
LangExt(doc) == AfterLast(doc.source, ".")

\* ------------------------------------------------------------------- state
Procs == {1, 2}

\* the invocations that run in Spec: one at a time
SeqProcs == {1}

Idle ==
    [pc |-> "idle", run |-> 0, mode |-> "none", ignored_files |-> {},
     all_files |-> <<>>, filtered_files |-> <<>>, inflight |-> <<>>,
     dispatched |-> <<>>, results |-> <<>>, futures |-> {}, all_docs |-> <<>>,
     ops |-> <<>>, error |-> "none", storeAtStart |-> {}, dirAtStart |-> NoDir,
     peak |-> 0, seen |-> {}, view |-> {}]

NoProbe == [kind |-> "none", path |-> <<>>, ext |-> <<>>, loader |-> "none",
            raised |-> "none", result |-> FALSE, storeBefore |-> {}]

\* the query loop before start() is called
NoChat == [pc |-> "off", lines |-> <<>>, query |-> "", asked |-> <<>>,
           chat_history |-> <<>>]

NoHist == [clean |-> 0, dirty |-> FALSE, lastCount |-> 0, prevCount |-> 0, env |-> 0]

Init ==
    /\ fs \in {FixedFiles \cup S : S \in SUBSET OptionalFiles}
    /\ ignore_folders \in IgnoreConfigs
    /\ edits = {}
    /\ dir = NoDir
    /\ store = {}
    /\ runs = 0
    /\ proc = [r \in Procs |-> Idle]
    /\ hist = NoHist
    /\ probe = NoProbe
    /\ chat = NoChat

Active(r) == proc[r].pc \notin {"idle", "done", "exited", "failed"}

Set(r, rec) == proc' = [proc EXCEPT ![r] = rec]

\* a run has ended (returned, exited or raised) with count chunks stored
Ended(count) ==
    [hist EXCEPT !.clean = IF hist.dirty THEN 0 ELSE IF @ < 2 THEN @ + 1 ELSE 2,
                 !.dirty = FALSE,
                 !.prevCount = hist.lastCount,
                 !.lastCount = count]

\* the file tree or the index directory was changed from outside the program
Changed ==
    [hist EXCEPT !.clean = 0, !.dirty = \E r \in Procs : Active(r), !.env = @ + 1]

\* -------------------------------------------------------------------- ingest
\* variant: the two branches exchanged
ModeOfInverted(exists) == IF exists THEN "create" ELSE "append"

\* the branch of line 196
ModeOf(exists) == IF exists THEN "append" ELSE "create"

\* variant: nothing is excluded
ExclusionOfNothing(mode, s) == {}

\* the ignored_files argument of process_documents: lines 204-207, or the
\* default [] of line 213
ExclusionOf(mode, s) == IF mode = "append" THEN StoredSources(s) ELSE {}

\* ingest() is entered: does_vectorstore_exist (line 196) picks the branch; on
\* the existing-index branch the index is opened and db.get() read (199-204).
\* view is the collection as this invocation's Chroma client holds it.
StartIngest(r) ==
    /\ ~Active(r)
    /\ runs < MaxRuns
    /\ runs' = runs + 1
    /\ LET mode == ModeOf(DoesVectorstoreExist(dir)) IN
       Set(r, [Idle EXCEPT !.pc = "discover",
                           !.run = runs + 1,
                           !.mode = mode,
                           !.ops = IF mode = "append" THEN <<"open", "get">> ELSE <<>>,
                           !.ignored_files = ExclusionOf(mode, store),
                           !.view = IF mode = "append" THEN store ELSE {},
                           !.storeAtStart = store,
                           !.dirAtStart = dir])
    /\ UNCHANGED <<chat, fs, edits, dir, store, hist, ignore_folders, probe>>

\* load_documents, lines 64-81: glob and filter; seen records the files that
\* were under cwd when the globs ran
Discover(r) ==
    /\ proc[r].pc = "discover"
    /\ \E all \in AllFilesOf(fs) :
          Set(r, [proc[r] EXCEPT
                    !.pc = "load",
                    !.seen = fs,
                    !.all_files = all,
                    !.filtered_files =
                        FilteredFiles(all, ignore_folders, proc[r].ignored_files)])
    /\ UNCHANGED <<chat, fs, edits, dir, store, runs, hist, ignore_folders, probe>>

\* the load futures submitted and not yet completed, once n are submitted
Outstanding(r, n) == n - Len(proc[r].results)

\* load_documents, lines 88-96: the next file's load is submitted to the pool
\* its size selects; peak records the most loads ever outstanding at once
SubmitLoad(r) ==
    /\ proc[r].pc = "load"
    /\ Len(proc[r].dispatched) < Len(proc[r].filtered_files)
    /\ LET file_path == proc[r].filtered_files[Len(proc[r].dispatched) + 1]
           file_size == FileSize(file_path)
       IN  Set(r, [proc[r] EXCEPT
                     !.pc = "loading",
                     !.inflight = file_path,
                     !.peak = IF Outstanding(r, Len(proc[r].dispatched) + 1) > @
                              THEN Outstanding(r, Len(proc[r].dispatched) + 1) ELSE @,
                     !.dispatched = Append(@,
                         [path |-> file_path, size |-> file_size,
                          pool |-> IF UsesProcessPool(file_size)
                                   THEN "process" ELSE "thread"])])
    /\ UNCHANGED <<chat, fs, edits, dir, store, runs, hist, ignore_folders, probe>>

\* variant: a task's exception is swallowed
PropagatesNever(raised) == FALSE

\* future.result() re-raises what the task raised (lines 93, 97, 153)
Propagates(raised) == raised # "none"

\* load_documents, lines 93/97: future.result() of the file in flight: the
\* document is appended, or the exception leaves ingest
LoadResult(r) ==
    /\ proc[r].pc = "loading"
    /\ LET out == LoadSingleDocument(proc[r].inflight) IN
       IF Propagates(out.raised)
       THEN /\ Set(r, [proc[r] EXCEPT !.pc = "failed", !.error = "load",
                                      !.inflight = <<>>])
            /\ hist' = Ended(Cardinality(store))
       ELSE /\ Set(r, [proc[r] EXCEPT
                         !.pc = "load",
                         !.inflight = <<>>,
                         !.results = Append(@, Document(proc[r].inflight))])
            /\ UNCHANGED hist
    /\ UNCHANGED <<chat, fs, edits, dir, store, runs, ignore_folders, probe>>

\* variant: the empty list is not detected
IsEmptyBatchNever(documents) == FALSE

\* `if not documents` (line 136)
IsEmptyBatch(documents) == documents = <<>>

\* process_documents, lines 135-149: load_documents has returned; an empty
\* list prints "No new documents to load" and exits, otherwise one split task
\* per document is submitted (a missing LANG_MAPPINGS key raises KeyError)
SubmitSplits(r) ==
    /\ proc[r].pc = "load"
    /\ Len(proc[r].dispatched) = Len(proc[r].filtered_files)
    /\ LET documents == proc[r].results IN
       IF IsEmptyBatch(documents)
       THEN /\ Set(r, [proc[r] EXCEPT !.pc = "exited"])
            /\ hist' = Ended(Cardinality(store))
       ELSE IF \E i \in 1..Len(documents) : ~InLangMappings(LangExt(documents[i]))
       THEN /\ Set(r, [proc[r] EXCEPT !.pc = "failed", !.error = "lang"])
            /\ hist' = Ended(Cardinality(store))
       ELSE /\ Set(r, [proc[r] EXCEPT !.pc = "split",
                                      !.futures = 1..Len(documents)])
            /\ UNCHANGED hist
    /\ UNCHANGED <<chat, fs, edits, dir, store, runs, ignore_folders, probe>>

\* process_documents, lines 152-154: as_completed yields a finished split task,
\* in completion order; its chunks extend all_docs, or its exception leaves ingest
GatherSplit(r, i) ==
    /\ proc[r].pc = "split"
    /\ i \in proc[r].futures
    /\ LET doc == proc[r].results[i]
           raised == IF SplitFails(doc.source) THEN "SplitError" ELSE "none"
       IN  IF Propagates(raised)
           THEN /\ Set(r, [proc[r] EXCEPT !.pc = "failed", !.error = "split"])
                /\ hist' = Ended(Cardinality(store))
           ELSE /\ Set(r, [proc[r] EXCEPT
                             !.futures = @ \ {i},
                             !.all_docs = @ \o ChunksOf(doc, proc[r].run)])
                /\ UNCHANGED hist
    /\ UNCHANGED <<chat, fs, edits, dir, store, runs, ignore_folders, probe>>

\* Chroma.from_documents on persist_directory: the backend either starts from
\* an empty collection or loads what the parquet files at the path still hold
CreatedStores(d, s, texts) ==
    IF d.coll /\ d.emb THEN {Range(texts), s \cup Range(texts)} ELSE {Range(texts)}

\* variant: db.persist() left out
AfterCommitSkipsPersist == "persisted"

\* the statement after the add/create of lines 209/215 is db.persist()
AfterCommit == "committed"

\* ingest, lines 209 and 215-220: add_documents on the opened index, or
\* from_documents building one
Commit(r) ==
    /\ proc[r].pc = "split"
    /\ proc[r].futures = {}
    /\ LET texts == proc[r].all_docs IN
       IF proc[r].mode = "append"
       THEN /\ store' = store \cup Range(texts)
            /\ Set(r, [proc[r] EXCEPT !.pc = AfterCommit, !.ops = Append(@, "add"),
                                      !.view = @ \cup Range(texts)])
       ELSE /\ store' \in CreatedStores(dir, store, texts)
            /\ Set(r, [proc[r] EXCEPT !.pc = AfterCommit, !.ops = Append(@, "create"),
                                      !.view = store'])
    /\ UNCHANGED <<chat, fs, edits, dir, runs, hist, ignore_folders, probe>>

\* ingest, line 221: db.persist() writes the files of the index directory.
\* With one invocation at a time the client's view is the collection. With
\* two, the duckdb+parquet backend of CHROMA_SETTINGS is outside this
\* repository: the collection either stays the one both clients wrote to, or
\* becomes the view of the client that persists.
Persist(r) ==
    /\ proc[r].pc = "committed"
    /\ dir' = PersistedDir
    /\ store' \in {store, proc[r].view}
    /\ Set(r, [proc[r] EXCEPT !.pc = "persisted", !.ops = Append(@, "persist")])
    /\ UNCHANGED <<chat, fs, edits, runs, hist, ignore_folders, probe>>

\* ingest, lines 222-226: db = None, the closing message, return
Release(r) ==
    /\ proc[r].pc = "persisted"
    /\ Set(r, [proc[r] EXCEPT !.pc = "done", !.ops = Append(@, "release"),
                              !.all_files = <<>>, !.all_docs = <<>>,
                              !.seen = {}, !.view = {}])
    /\ hist' = Ended(Cardinality(store))
    /\ UNCHANGED <<chat, fs, edits, dir, store, runs, ignore_folders, probe>>

\* -------------------------------------------------------------- environment
\* a file is edited in place: same path, new content
Edit(p) ==
    /\ p \in fs
    /\ p \notin edits
    /\ hist.env < MaxEnv
    /\ edits' = edits \cup {p}
    /\ hist' = Changed
    /\ UNCHANGED <<chat, fs, dir, store, runs, proc, ignore_folders, probe>>

\* a new file appears under cwd
Create(p) ==
    /\ p \notin fs
    /\ hist.env < MaxEnv
    /\ fs' = fs \cup {p}
    /\ hist' = Changed
    /\ UNCHANGED <<chat, edits, dir, store, runs, proc, ignore_folders, probe>>

\* a shard file of the index directory is removed by hand: the marker and the
\* parquet files stay
Damage ==
    /\ hist.env < MaxEnv
    /\ dir.nbin + dir.npkl > 0
    /\ \/ dir.nbin > 0 /\ dir' = [dir EXCEPT !.nbin = @ - 1]
       \/ dir.npkl > 0 /\ dir' = [dir EXCEPT !.npkl = @ - 1]
    /\ hist' = Changed
    /\ UNCHANGED <<chat, fs, edits, store, runs, proc, ignore_folders, probe>>

Run(r) ==
    \/ StartIngest(r)
    \/ Discover(r)
    \/ SubmitLoad(r)
    \/ LoadResult(r)
    \/ SubmitSplits(r)
    \/ \E i \in 1..Cardinality(OptionalFiles) : GatherSplit(r, i)
    \/ Commit(r)
    \/ Persist(r)
    \/ Release(r)

Next ==
    \/ \E r \in SeqProcs : Run(r)
    \/ \E p \in EditableFiles : Edit(p)
    \/ \E p \in OptionalFiles : Create(p)
    \/ Damage

Spec == Init /\ [][Next]_vars

\* ------------------------------------------------ two invocations at once
\* an index built from a.py alone by an earlier run (numbered 0)
IndexOfAPy == Range(ChunksOf(Document(aPy), 0))

\* two `eunomia ingest` invocations on one root and one index path: no index
\* yet, or the index of a.py; files not yet indexed lie under the root
InitRace ==
    /\ fs \in {FixedFiles \cup {aPy} \cup S : S \in SUBSET {cMd, vnPy}}
    /\ ignore_folders = <<>>
    /\ edits = {}
    /\ \/ dir = NoDir /\ store = {}
       \/ dir = PersistedDir /\ store = IndexOfAPy
    /\ runs = 0
    /\ proc = [r \in Procs |-> Idle]
    /\ hist = NoHist
    /\ probe = NoProbe
    /\ chat = NoChat

\* the steps of the two invocations interleave; nothing orders them
NextRace == \E r \in Procs : Run(r)

SpecRace == InitRace /\ [][NextRace]_vars

\* ------------------------------------------- direct calls of the pure methods
\* every combination of the files does_vectorstore_exist looks at
InitExists ==
    /\ dir \in [marker : BOOLEAN, coll : BOOLEAN, emb : BOOLEAN,
                nbin : 0..MaxBin, npkl : 0..MaxPkl]
    /\ fs = FixedFiles
    /\ ignore_folders = <<>>
    /\ edits = {}
    /\ store = {}
    /\ runs = 0
    /\ proc = [r \in Procs |-> Idle]
    /\ hist = NoHist
    /\ probe = NoProbe
    /\ chat = NoChat

\* a call of does_vectorstore_exist
CheckExists ==
    /\ probe.kind = "none"
    /\ probe' = [NoProbe EXCEPT !.kind = "exists", !.result = DoesVectorstoreExist(dir)]
    /\ UNCHANGED <<chat, fs, edits, dir, store, runs, proc, hist, ignore_folders>>

SpecExists == InitExists /\ [][CheckExists]_vars

\* the characters of the generated paths
PathChars == {".", "/", "g", "o", "O"}

RECURSIVE PathsUpTo(_)
PathsUpTo(n) ==
    IF n = 0 THEN {<<>>}
    ELSE LET shorter == PathsUpTo(n - 1) IN
         shorter \cup {Append(q, c) : q \in {x \in shorter : Len(x) = n - 1}, c \in PathChars}

\* the paths load_single_document is called on: the file tree, all short
\* paths over PathChars, and some longer ones
LoadPaths ==
    Universe \cup (PathsUpTo(MaxPathLen) \ {<<>>}) \cup
    { <<"a", ".", "P", "Y">>,
      <<"a", ".", "p", "y", "/", "r">>,
      <<"x", ".", "t", "x", "t", ".", "m", "d">>,
      <<"x", ".", "m", "d", ".", "t", "x", "t">>,
      <<"s", "r", "c", "/", "p", "y">>,
      <<"p", "y">>,
      <<"a", ".", "s", "c", "a", "l", "a">>,
      <<"a", ".", "s", "c", "a">> }

\* an index that holds chunks while load_single_document is called
SomeStore == {[source |-> aPy, k |-> 1, edited |-> FALSE, run |-> 1]}

InitLoad ==
    /\ \E p \in LoadPaths : probe = [NoProbe EXCEPT !.kind = "path", !.path = p]
    /\ store \in {{}, SomeStore}
    /\ dir = IF store = {} THEN NoDir ELSE PersistedDir
    /\ fs = FixedFiles
    /\ ignore_folders = <<>>
    /\ edits = {}
    /\ runs = 0
    /\ proc = [r \in Procs |-> Idle]
    /\ hist = NoHist
    /\ chat = NoChat

\* a call of load_single_document(probe.path)
CallLoadSingle ==
    /\ probe.kind = "path"
    /\ LET out == LoadSingleDocument(probe.path) IN
       probe' = [probe EXCEPT !.kind = "loaded", !.ext = out.ext,
                              !.loader = out.loader, !.raised = out.raised,
                              !.storeBefore = store]
    /\ UNCHANGED <<chat, fs, edits, dir, store, runs, proc, hist, ignore_folders>>

SpecLoad == InitLoad /\ [][CallLoadSingle]_vars

\* ------------------------------------------------------------ Eunomia.start
\* the lines typed at the "Enter a query: " prompt
Lines == {"quit", "q", "Q", "quit ", "", "what does ingest do?"}

\* query in ["quit", "q"] (line 87)
IsQuit(query) == query \in {"quit", "q"}

\* start() has built the chain (lines 68-83) and is at the prompt
InitChat ==
    /\ chat = [NoChat EXCEPT !.pc = "prompt"]
    /\ fs = FixedFiles
    /\ ignore_folders = <<>>
    /\ edits = {}
    /\ dir = PersistedDir
    /\ store = SomeStore
    /\ runs = 0
    /\ proc = [r \in Procs |-> Idle]
    /\ hist = NoHist
    /\ probe = NoProbe

\* lines 86-88: input() returns a line; quit or q breaks out of the loop,
\* any other line becomes the question of the call of line 90
ReadLine(line) ==
    /\ chat.pc = "prompt"
    /\ Len(chat.lines) < MaxLines
    /\ IF IsQuit(line)
       THEN chat' = [chat EXCEPT !.pc = "ended", !.lines = Append(@, line)]
       ELSE chat' = [chat EXCEPT !.pc = "asking", !.lines = Append(@, line),
                                 !.query = line, !.asked = Append(@, line)]
    /\ UNCHANGED <<fs, edits, dir, store, runs, proc, hist, ignore_folders, probe>>

\* line 90: qa(...) returns; the chain's ConversationBufferMemory has saved
\* the turn, and the loop goes back to the prompt
Answer ==
    /\ chat.pc = "asking"
    /\ chat' = [chat EXCEPT !.pc = "prompt", !.chat_history = Append(@, chat.query)]
    /\ UNCHANGED <<fs, edits, dir, store, runs, proc, hist, ignore_folders, probe>>

\* line 90: qa(...) raises (a provider error): nothing in the loop catches
\* it, so it leaves start() and the process ends with the traceback
AnswerFails ==
    /\ chat.pc = "asking"
    /\ chat' = [chat EXCEPT !.pc = "crashed"]
    /\ UNCHANGED <<fs, edits, dir, store, runs, proc, hist, ignore_folders, probe>>

NextChat ==
    \/ \E line \in Lines : ReadLine(line)
    \/ Answer
    \/ AnswerFails

SpecChat == InitChat /\ [][NextChat]_vars

\* ------------------------------------------------------------------- claims
\* index operations that change or write the index
Mutating == {"add", "create", "persist"}

NoMutation(ops) == \A i \in 1..Len(ops) : ops[i] \notin Mutating

\* the chunks the index holds that run number n committed
CommittedBy(n) == {c \in store : c.run = n}

\* C1: when two ingest runs have ended in succession with no change of the
\* file tree or of the index directory since before the first of them started,
\* the stored chunk count after the second equals the count after the first.
C1_Idempotent == hist.clean = 2 => hist.lastCount = hist.prevCount

\* C2: in every run, whatever the already-indexed paths are, no file whose
\* path contains an ignore substring is a candidate, is loaded, or has chunks
\* in the index.
C2_IgnoreRule ==
    /\ \A r \in Procs :
          /\ \A p \in Range(proc[r].filtered_files) : ~InIgnoredFolder(p, ignore_folders)
          /\ \A i \in 1..Len(proc[r].results) :
                ~InIgnoredFolder(proc[r].results[i].source, ignore_folders)
    /\ \A c \in store : ~InIgnoredFolder(c.source, ignore_folders)

\* C3: in a run against an existing index, no file whose path is the source
\* of a chunk stored when the run read the index is a candidate, is
\* dispatched, loaded or split, and the run commits no chunk of such a path,
\* whether or not the file was edited since.
C3_ExclusionByPath ==
    \A r \in Procs :
        proc[r].mode = "append" =>
            LET known == StoredSources(proc[r].storeAtStart) IN
            /\ \A p \in Range(proc[r].filtered_files) : p \notin known
            /\ \A i \in 1..Len(proc[r].dispatched) : proc[r].dispatched[i].path \notin known
            /\ \A i \in 1..Len(proc[r].results) : proc[r].results[i].source \notin known
            /\ \A i \in 1..Len(proc[r].all_docs) : proc[r].all_docs[i].source \notin known
            /\ \A c \in CommittedBy(proc[r].run) : c.source \notin known

\* C3 witness: a file indexed by an earlier run and edited in place since is
\* found by the glob of a run against the existing index and is not a candidate.
C3_Witness ==
    \E r \in Procs : \E p \in edits :
        /\ proc[r].mode = "append"
        /\ proc[r].pc = "load"
        /\ p \in Range(proc[r].all_files)
        /\ p \in StoredSources(proc[r].storeAtStart)
        /\ \E c \in store : c.source = p /\ ~c.edited
        /\ p \notin Range(proc[r].filtered_files)
        /\ proc[r].filtered_files # <<>>

\* a run is past the `if not documents` check of process_documents
PastEmptyCheck(r) ==
    \/ proc[r].pc \in {"exited", "split", "committed", "persisted", "done"}
    \/ proc[r].pc = "failed" /\ proc[r].error \in {"lang", "split"}

\* C4 as stated: a run that found no new documents has stopped without ever
\* opening the index, on the existing-index path too, and without changing it.
C4_EmptyBatchNeverOpens ==
    \A r \in Procs :
        (PastEmptyCheck(r) /\ proc[r].results = <<>>) =>
            /\ proc[r].pc = "exited"
            /\ proc[r].ops = <<>>
            /\ store = proc[r].storeAtStart

\* C4 as amended: a run that found no new documents has stopped without add,
\* create or persist and the stored chunks are those of its start; on the
\* fresh-index path it never opened the index, on the existing-index path it
\* had opened it and read its metadata (lines 199-204) before discovery.
C4_EmptyBatchNoMutation ==
    \A r \in Procs :
        (PastEmptyCheck(r) /\ proc[r].results = <<>>) =>
            /\ proc[r].pc = "exited"
            /\ proc[r].ops = IF proc[r].mode = "append" THEN <<"open", "get">> ELSE <<>>
            /\ NoMutation(proc[r].ops)
            /\ store = proc[r].storeAtStart

\* C4 witness: a run against an existing, non-empty index found nothing new
\* and exited.
C4_Witness ==
    \E r \in Procs :
        /\ proc[r].pc = "exited"
        /\ proc[r].mode = "append"
        /\ proc[r].filtered_files = <<>>
        /\ proc[r].all_files # <<>>
        /\ store # {}

\* C5: a run one of whose candidate files fails to load or to split never
\* reaches add/create/persist and commits no chunk; a run that has failed
\* leaves the index holding exactly the chunks it held at the run's start.
C5_NoPartialCommit ==
    \A r \in Procs :
        /\ proc[r].pc = "failed" =>
              /\ store = proc[r].storeAtStart
              /\ NoMutation(proc[r].ops)
        /\ (\E p \in Range(proc[r].filtered_files) : LoadFails(p) \/ SplitFails(p)) =>
              /\ NoMutation(proc[r].ops)
              /\ CommittedBy(proc[r].run) = {}
              /\ proc[r].pc \notin {"committed", "persisted", "done"}
              /\ (proc[r].pc = "load"
                    /\ Len(proc[r].dispatched) = Len(proc[r].filtered_files)) =>
                        \A i \in 1..Len(proc[r].results) :
                            ~LoadFails(proc[r].results[i].source)

\* C5 witness: a run against an existing index failed on one file after
\* another file of the batch had been loaded.
C5_Witness ==
    \E r \in Procs :
        /\ proc[r].pc = "failed"
        /\ proc[r].results # <<>>
        /\ proc[r].mode = "append"
        /\ store # {}

IsPrefix(s, t) == Len(s) <= Len(t) /\ SubSeq(t, 1, Len(s)) = s

Count(ops, op) == Cardinality({i \in 1..Len(ops) : ops[i] = op})

\* C6: a run that returns has committed: its index operations are the open
\* and get of the existing-index branch followed by add, or create alone, then
\* exactly one persist, then the release; in every state a persist directly
\* follows the add/create, a release directly follows the persist, and a run
\* that has committed and not yet released is on its way to persist.
C6_CommitEndsWithPersist ==
    \A r \in Procs :
        LET ops == proc[r].ops IN
        /\ Count(ops, "persist") <= 1
        /\ Count(ops, "add") + Count(ops, "create") <= 1
        /\ \A i \in 1..Len(ops) :
              /\ ops[i] = "persist" => (i > 1 /\ ops[i - 1] \in {"add", "create"})
              /\ ops[i] = "release" => (i > 1 /\ ops[i - 1] = "persist")
        /\ proc[r].pc = "done" =>
              \/ ops = <<"open", "get", "add", "persist", "release">>
              \/ ops = <<"create", "persist", "release">>
        /\ (\E i \in 1..Len(ops) : ops[i] \in {"add", "create"}) =>
              proc[r].pc \in {"committed", "persisted", "done"}
        /\ proc[r].pc = "persisted" => Last(ops) = "persist"

\* C6 witness: a run that appended to an existing index has returned.
C6_Witness ==
    \E r \in Procs :
        /\ proc[r].pc = "done"
        /\ proc[r].mode = "append"
        /\ CommittedBy(proc[r].run) # {}
        /\ proc[r].storeAtStart # {}

\* the chunks of all the documents of the files in the sequence
RECURSIVE ChunkSetOf(_, _)
ChunkSetOf(files, run) ==
    IF files = <<>> THEN {}
    ELSE {[source |-> Head(files), k |-> k, run |-> run] : k \in 1..NChunks(Head(files))}
         \cup ChunkSetOf(Tail(files), run)

StripEdited(cs) == {[source |-> c.source, k |-> c.k, run |-> c.run] : c \in cs}

\* C7: a run that found does_vectorstore_exist false at its start (a damaged
\* index included) passed an empty exclusion set to discovery, opened nothing
\* before its single create, and the create received the chunks of every
\* discovered file; a run that found it true opened the index, read it,
\* passed exactly the stored sources as the exclusion set and added its new
\* chunks to the chunks already stored.
C7_CreateVsAppend ==
    \A r \in Procs :
        proc[r].pc # "idle" =>
            LET committing == proc[r].pc \in {"committed", "persisted"} IN
            IF DoesVectorstoreExist(proc[r].dirAtStart)
            THEN /\ proc[r].mode = "append"
                 /\ proc[r].ignored_files = StoredSources(proc[r].storeAtStart)
                 /\ IsPrefix(proc[r].ops, <<"open", "get", "add", "persist", "release">>)
                 /\ Len(proc[r].ops) >= 2
                 /\ committing =>
                       store = proc[r].storeAtStart \cup Range(proc[r].all_docs)
            ELSE /\ proc[r].mode = "create"
                 /\ proc[r].ignored_files = {}
                 /\ IsPrefix(proc[r].ops, <<"create", "persist", "release">>)
                 /\ committing =>
                       /\ CommittedBy(proc[r].run) = Range(proc[r].all_docs)
                       /\ StripEdited(Range(proc[r].all_docs)) =
                              ChunkSetOf(proc[r].filtered_files, proc[r].run)
                       /\ Range(proc[r].filtered_files) =
                              {p \in Range(proc[r].all_files) :
                                  ~InIgnoredFolder(p, ignore_folders)}

\* C7 witness: the marker and the parquet files are there, shard files are
\* missing, chunks are stored, and the run has built an index with create.
C7_Witness ==
    \E r \in Procs :
        /\ proc[r].dirAtStart.marker
        /\ proc[r].dirAtStart.nbin + proc[r].dirAtStart.npkl < 4
        /\ proc[r].storeAtStart # {}
        /\ proc[r].pc = "committed"
        /\ Last(proc[r].ops) = "create"
        /\ proc[r].all_docs # <<>>

C9_DispatchBySize ==
    \A r \in Procs :
        LET d == proc[r].dispatched IN
        /\ Len(d) <= Len(proc[r].filtered_files)
        /\ \A i \in 1..Len(d) :
              /\ d[i].path = proc[r].filtered_files[i]
              /\ d[i].size = FileSize(d[i].path)
              /\ d[i].pool \in {"process", "thread"}
              /\ d[i].pool = "process" <=> d[i].size > 5242880
              /\ d[i].pool = "thread" <=> d[i].size <= 5242880
        /\ \A i, j \in 1..Len(d) : d[i].path = d[j].path => i = j
        /\ PastEmptyCheck(r) => Len(d) = Len(proc[r].filtered_files)

\* C9 witness: one run dispatched a file of exactly 5242880 bytes to the
\* thread pool and a larger one to the process pool.
C9_Witness ==
    \E r \in Procs :
        LET d == proc[r].dispatched IN
        /\ \E i \in 1..Len(d) : d[i].size = 5242880 /\ d[i].pool = "thread"
        /\ \E i \in 1..Len(d) : d[i].size = 5242881 /\ d[i].pool = "process"
        /\ \E i \in 1..Len(d) : d[i].size = 5242879 /\ d[i].pool = "thread"

\* the extension of a path as the claim reads it: the text from the last dot
\* on; a path without a dot has none
HasDot(path) == \E i \in 1..Len(path) : path[i] = "."

DotExtension(path) == SubSeq(path, LastIndexOf(path, "."), Len(path))

Registered(path) == HasDot(path) /\ DotExtension(path) \in Range(LOADER_KEYS)

\* C10: load_single_document on a path whose extension is not a key of the
\* loader registry raises the unsupported-format error, invokes no loader and
\* leaves the index as it was.
C10_UnsupportedRaises ==
    (probe.kind = "loaded" /\ ~Registered(probe.path)) =>
        /\ probe.raised = "ValueError"
        /\ probe.loader = "none"
        /\ store = probe.storeBefore

\* C10, the part that holds: the same for every path that contains a dot.
C10_DottedUnsupportedRaises ==
    (probe.kind = "loaded" /\ HasDot(probe.path) /\ ~Registered(probe.path)) =>
        /\ probe.raised = "ValueError"
        /\ probe.loader = "none"
        /\ store = probe.storeBefore

\* the characters of the paths in code-point order, as Python compares strings
CodePoints ==
    <<".", "/", "O", "P", "Y", "a", "b", "c", "d", "e", "f", "g", "h", "i", "j",
      "k", "l", "m", "n", "o", "p", "q", "r", "s", "t", "u", "v", "w", "x", "y", "z">>

CodeRank(c) == CHOOSE i \in 1..Len(CodePoints) : CodePoints[i] = c

\* p < q for Python strings
PathLess(p, q) ==
    \E i \in 1..(Len(q)) :
        /\ i <= Len(p) + 1
        /\ SubSeq(p, 1, i - 1) = SubSeq(q, 1, i - 1)
        /\ i = Len(p) + 1 \/ CodeRank(p[i]) < CodeRank(q[i])

\* position in LOADER_MAPPING of the key that selects the path's loader
KeyIndex(p) == CHOOSE k \in 1..Len(LOADER_KEYS) : LOADER_KEYS[k] = LoaderExt(p)

NoDuplicates(s) == \A i, j \in 1..Len(s) : s[i] = s[j] => i = j

\* C11 as stated: the candidate sequence of every run is in strictly
\* increasing lexical order of path (so without duplicates), whatever the
\* order of the registry's keys.
C11_SortedCandidates ==
    \A r \in Procs :
        \A i, j \in 1..Len(proc[r].filtered_files) :
            i < j => PathLess(proc[r].filtered_files[i], proc[r].filtered_files[j])

\* C11 as amended: the glob result and the candidate sequence hold each path
\* once, every path in them has the extension of a registry key, and they are
\* grouped by extension in the order of the registry's keys.
C11_DistinctInRegistryOrder ==
    \A r \in Procs :
        /\ NoDuplicates(proc[r].all_files)
        /\ NoDuplicates(proc[r].filtered_files)
        /\ Range(proc[r].filtered_files) \subseteq fs
        /\ \A i \in 1..Len(proc[r].filtered_files) :
              LoaderExt(proc[r].filtered_files[i]) \in Range(LOADER_KEYS)
        /\ \A i, j \in 1..Len(proc[r].filtered_files) :
              i < j => KeyIndex(proc[r].filtered_files[i]) <= KeyIndex(proc[r].filtered_files[j])

\* C11 witness: discovery returned candidates of two extensions where a path
\* of the earlier key sorts after a path of the later key.
C11_Witness ==
    \E r \in Procs :
        \E i, j \in 1..Len(proc[r].filtered_files) :
            /\ i < j
            /\ KeyIndex(proc[r].filtered_files[i]) < KeyIndex(proc[r].filtered_files[j])
            /\ PathLess(proc[r].filtered_files[j], proc[r].filtered_files[i])

\* the lines of the sequence that are not a quit command, in order
RECURSIVE Questions(_)
Questions(lines) ==
    IF lines = <<>> THEN <<>>
    ELSE (IF Head(lines) \in {"quit", "q"} THEN <<>> ELSE <<Head(lines)>>)
         \o Questions(Tail(lines))

\* the turns answered so far: every question but the one being answered
Answered ==
    IF chat.pc \in {"asking", "crashed"}
    THEN SubSeq(chat.asked, 1, Len(chat.asked) - 1)
    ELSE chat.asked

\* C12: a failing answer does not end the query loop: the loop never stops on
\* a line other than quit or q, and the history of the turns answered before
\* is kept for the next input.
C12_FailureIsolated ==
    /\ chat.pc # "crashed"
    /\ chat.chat_history = Answered

\* C13: the query loop has stopped exactly when the last line read is quit or
\* q; the questions sent to the chain are the other lines read, each once and
\* in order.
C13_StopsOnQuitOnly ==
    /\ chat.pc \in {"ended", "crashed"} <=>
          (chat.lines # <<>> /\ Last(chat.lines) \in {"quit", "q"})
    /\ chat.asked = Questions(chat.lines)

\* C13, the part that holds: each line other than quit and q is sent once, in
\* order; a loop ended by break has read quit or q last and nothing after it.
C13_QuestionsOnce ==
    /\ chat.asked = Questions(chat.lines)
    /\ chat.pc = "ended" => Last(chat.lines) \in {"quit", "q"}
    /\ \A i \in 1..(Len(chat.lines) - 1) : chat.lines[i] \notin {"quit", "q"}

\* the loads of run r that went to the thread pool (files at or below threshold)
SmallLoads(r) ==
    {i \in 1..Len(proc[r].dispatched) : proc[r].dispatched[i].pool = "thread"}

\* C14: once two or more files at or below the threshold have been loaded, the
\* load of one of them was submitted while an earlier load was still
\* outstanding.
C14_SmallLoadsOverlap ==
    \A r \in Procs :
        (Cardinality(SmallLoads(r)) >= 2 /\ proc[r].pc \in {"split", "committed", "persisted", "done"})
            => proc[r].peak >= 2

\* C14, what the code does instead: a load is submitted only after every
\* earlier load has completed, so at most one is ever outstanding.
C14_LoadsAreSerial ==
    \A r \in Procs :
        /\ proc[r].peak <= 1
        /\ Outstanding(r, Len(proc[r].dispatched)) <= 1
        /\ proc[r].pc = "load" => Outstanding(r, Len(proc[r].dispatched)) = 0

\* the split tasks of run r that as_completed has yielded
Gathered(r) == (1..Len(proc[r].results)) \ proc[r].futures

RECURSIVE SumChunks(_, _)
SumChunks(r, I) ==
    IF I = {} THEN 0
    ELSE LET i == CHOOSE x \in I : TRUE
         IN  NChunks(proc[r].results[i].source) + SumChunks(r, I \ {i})

\* C15: while the split results are gathered, in whatever order they complete,
\* all_docs holds exactly the chunks of the documents gathered so far, each
\* once; the chunks of one document are adjacent and in split order. With
\* every task gathered it holds the chunks of every loaded document.
C15_GatherOrderIndependent ==
    \A r \in Procs :
        proc[r].pc \in {"split", "committed", "persisted"} =>
            LET all_docs == proc[r].all_docs IN
            /\ StripEdited(Range(all_docs)) =
                  UNION {ChunkSetOf(<<proc[r].results[i].source>>, proc[r].run) :
                            i \in Gathered(r)}
            /\ Len(all_docs) = SumChunks(r, Gathered(r))
            /\ NoDuplicates(all_docs)
            /\ \A j \in 1..Len(all_docs) :
                  /\ all_docs[j].edited = (\E i \in Gathered(r) :
                        proc[r].results[i] = [source |-> all_docs[j].source, edited |-> TRUE])
                  /\ all_docs[j].k > 1 =>
                        /\ j > 1
                        /\ all_docs[j - 1].source = all_docs[j].source
                        /\ all_docs[j - 1].k = all_docs[j].k - 1
            /\ proc[r].pc # "split" => Gathered(r) = 1..Len(proc[r].results)

\* every task gathered, in an order other than the submission order, with a
\* document of two chunks among them
C15_Witness ==
    \E r \in Procs :
        /\ proc[r].pc = "split"
        /\ proc[r].futures = {}
        /\ Len(proc[r].results) >= 2
        /\ proc[r].all_docs[1].source # proc[r].results[1].source
        /\ \E j \in 1..Len(proc[r].all_docs) : proc[r].all_docs[j].k = 2

\* C18: every key of the loader registry, without its dot, is a key of
\* LANG_MAPPINGS; for every file discovery returns and every document loaded,
\* the text after the last dot of the path, which the split looks up, is the
\* extension that selected the loader and has a language tag; no run stops
\* on a missing tag.
C18_LanguageTagTotal ==
    /\ \A k \in 1..Len(LOADER_KEYS) :
          Head(LOADER_KEYS[k]) = "." /\ Tail(LOADER_KEYS[k]) \in LANG_KEYS
    /\ \A r \in Procs :
          /\ proc[r].error # "lang"
          /\ \A j \in 1..Len(proc[r].all_files) :
                LET p == proc[r].all_files[j] IN
                /\ InLoaderMapping(LoaderExt(p))
                /\ <<".">> \o AfterLast(p, ".") = LoaderExt(p)
                /\ AfterLast(p, ".") \in LANG_KEYS
          /\ \A i \in 1..Len(proc[r].results) :
                LET doc == proc[r].results[i] IN
                /\ <<".">> \o LangExt(doc) = LoadSingleDocument(doc.source).ext
                /\ LangExt(doc) \in LANG_KEYS

\* the split tasks of documents of two extensions, md among them, were
\* submitted: every lookup succeeded
C18_Witness ==
    \E r \in Procs :
        /\ proc[r].pc = "split"
        /\ \E i, j \in 1..Len(proc[r].results) :
              /\ LangExt(proc[r].results[i]) = <<"m", "d">>
              /\ LangExt(proc[r].results[j]) = <<"p", "y">>

\* a file the claim's completeness is about: registered extension, no ignore
\* substring in its path, at least one chunk
Eligible(p) ==
    /\ Registered(p)
    /\ ~InIgnoredFolder(p, ignore_folders)
    /\ NChunks(p) >= 1

\* C17 as stated: once a run has committed and persisted, every file under the
\* root with a registered extension, no ignore substring in its path and at
\* least one chunk is a stored source.
C17_CompleteOverRoot ==
    \A r \in Procs :
        proc[r].pc = "persisted" =>
            \A p \in fs : Eligible(p) => p \in StoredSources(store)

\* C17, amended: once a run has committed and persisted, every such file that
\* was under the root when the run's discovery ran and has no hidden
\* component in its path is a stored source.
C17_CompleteOverDiscovered ==
    \A r \in Procs :
        proc[r].pc = "persisted" =>
            \A p \in proc[r].seen :
                (Eligible(p) /\ ~HasHiddenComponent(p)) => p \in StoredSources(store)

\* a run has committed and persisted files of two extensions, while a hidden
\* file with a registered extension lies under the root, not stored
C17_Witness ==
    \E r \in Procs :
        /\ proc[r].pc = "persisted"
        /\ \E p \in proc[r].seen :
              Eligible(p) /\ HasHiddenComponent(p) /\ p \notin StoredSources(store)
        /\ \E p, q \in proc[r].seen :
              /\ Eligible(p) /\ Eligible(q)
              /\ DotExtension(p) # DotExtension(q)
              /\ {p, q} \subseteq StoredSources(store)

====
